---- MODULE Spec2Model ----
(***************************************************************************)
(* EGMSweb (src/egms_web.py): a Streamlit page that fetches EGMS tiles.     *)
(* The model follows one browser session: the two radio widgets that pick   *)
(* the branch of main(), st.session_state, and the button handlers of the   *)
(* four branches, whose loops are stepped one iteration at a time.          *)
(*                                                                          *)
(* Text is a sequence of atoms (short strings); formatting, substring and   *)
(* suffix tests are computed on those sequences.  Python's None is carried  *)
(* by the `none` field of a value, so that `x is not None` and truthiness   *)
(* (`if x`) stay different tests.                                           *)
(***************************************************************************)
EXTENDS Integers, Sequences, FiniteSets, TLC

----------------------------------------------------------------------------
(* Bounds of the model *)

\* values of each numeric input of the forms: its minimum .. minimum + Span - 1
Span == 2
\* options of each select box and multiselect that the model's user picks from
NumChoices == 2
\* the first run of a session makes at most MaxTasks calls of fetch_file_data
MaxTasks == 4
\* calls of fetch_file_data (a run that makes none counting as one) of a
\* session that goes on after its first run
MaxSessionWork == 2
\* an HTTP exchange takes 0 .. MaxFetchSecs seconds
MaxFetchSecs == 0
\* entries of a per-tile archive in the function-level specification
MaxEntries == 2
\* "Min North" and "Min East" go up to Excess above the largest value of
\* "Max North" and "Max East"
Excess == 1

----------------------------------------------------------------------------
(* Program constants *)

BASE_URL == "https://egms.land.copernicus.eu/insar-api/archive/download/"
DISPLACEMENTS == <<"E", "U">>
DELAY == 3
DEFAULT_YEAR == "2019_2023"
DEFAULT_ID == "fcf61f768a6141ca81d6e4851c86cf89"
MIN_COORD == 9
MIN_ORBIT == 1
MIN_BURST == 1
SLEEP_SECS == 1
HTTP_OK == 200
ORBIT_WIDTH == 3
BURST_WIDTH == 4
SWATHS == <<"IW1", "IW2", "IW3">>
POLARIZATIONS == <<"VV", "VH", "HH", "HV">>
LEVELS == {"L2A", "L2B", "L3"}
DOWNLOAD_TYPES == {"Single File", "Batch Download"}

----------------------------------------------------------------------------
(* Values: None, bytes, text *)

\* Python None
None == [none |-> TRUE, fmt |-> "none", raw |-> <<>>, entries |-> <<>>]
\* a bytes object that is not a zip container
Bytes(b) == [none |-> FALSE, fmt |-> "raw", raw |-> b, entries |-> <<>>]
\* the bytes of a zip container with the given entries, in stored order
ZipBytes(es) == [none |-> FALSE, fmt |-> "zip", raw |-> <<>>, entries |-> es]
\* a str
Text(t) == [none |-> FALSE, fmt |-> "str", raw |-> t, entries |-> <<>>]

\* bool(x) of None, bytes or str; the bytes of a zip container are never empty
Truthy(x) == /\ ~x.none
             /\ \/ x.fmt = "zip"
                \/ Len(x.raw) > 0

DIGITS == <<"0", "1", "2", "3", "4", "5", "6", "7", "8", "9">>

\* f"{n}" of a natural number
RECURSIVE Str(_)
Str(n) == IF n < 10 THEN <<DIGITS[n + 1]>>
          ELSE Str(n \div 10) \o <<DIGITS[(n % 10) + 1]>>

\* f"{n:0{w}d}"
ZeroPad(n, w) ==
    LET s == Str(n)
    IN  IF Len(s) >= w THEN s ELSE [i \in 1..(w - Len(s)) |-> "0"] \o s

\* str.endswith
EndsWith(s, suffix) ==
    /\ Len(s) >= Len(suffix)
    /\ SubSeq(s, Len(s) - Len(suffix) + 1, Len(s)) = suffix

\* `p in s` on strings
Contains(s, p) ==
    \E i \in 0..(Len(s) - Len(p)) : SubSeq(s, i + 1, i + Len(p)) = p

\* position of the first occurrence of atom a in s, 0 if absent
IndexOf(s, a) ==
    IF \E i \in 1..Len(s) : s[i] = a
    THEN CHOOSE i \in 1..Len(s) : s[i] = a /\ \A j \in 1..(i - 1) : s[j] # a
    ELSE 0

----------------------------------------------------------------------------
(* fetch_file_data *)

\* the L2 template receives "L2a" / "L2b"
UrlDataType(data_type) == IF data_type = "L2A" THEN "L2a" ELSE "L2b"

\* the data_type written into the L2 filename prefix
PrefixDataType(data_type) == data_type

L3Stem(data_type, e, n, d, year) ==
    <<"EGMS", "_", data_type, "_", "E">> \o Str(e) \o <<"N">> \o Str(n)
        \o <<"_", "100km", "_", d, "_", year, "_", "1">>

L2Stem(data_type, relative_orbit, burst_cycle, swath, polarization, year) ==
    <<"EGMS", "_", data_type, "_">> \o relative_orbit \o <<"_">> \o burst_cycle
        \o <<"_">> \o swath \o <<"_">> \o polarization \o <<"_", year, "_", "1">>

\* BASE_URL_L3.format(...) / BASE_URL_L2.format(...)
FormatUrl(stem, id) == <<BASE_URL>> \o stem \o <<".zip", "?id=", id>>

\* AllPresent without the test of swath
AllPresentIgnoringSwath(a) ==
    /\ Len(a.relative_orbit) > 0
    /\ Len(a.burst_cycle) > 0
    /\ Len(a.polarization) > 0

\* all([relative_orbit, burst_cycle, swath, polarization])
AllPresent(a) ==
    /\ Len(a.relative_orbit) > 0
    /\ Len(a.burst_cycle) > 0
    /\ Len(a.swath) > 0
    /\ Len(a.polarization) > 0

filename_prefix(a) ==
    IF a.data_type = "L3"
    THEN L3Stem(a.data_type, a.e, a.n, a.d, a.year)
    ELSE L2Stem(PrefixDataType(a.data_type), a.relative_orbit, a.burst_cycle,
                a.swath, a.polarization, a.year)

url(a) ==
    IF a.data_type = "L3"
    THEN FormatUrl(L3Stem(a.data_type, a.e, a.n, a.d, a.year), a.id)
    ELSE FormatUrl(L2Stem(UrlDataType(a.data_type), a.relative_orbit,
                          a.burst_cycle, a.swath, a.polarization, a.year), a.id)

\* name.endswith(".csv") and filename_prefix in name
Matches(name, prefix) == EndsWith(name, <<".csv">>) /\ Contains(name, prefix)

\* for name in z.namelist(): if <match>: ... -- index of the entry the loop
\* stops at, 0 if it runs to the end
FirstMatch(entries, prefix) ==
    IF \E i \in 1..Len(entries) : Matches(entries[i].name, prefix)
    THEN CHOOSE i \in 1..Len(entries) :
            /\ Matches(entries[i].name, prefix)
            /\ \A j \in 1..(i - 1) : ~Matches(entries[j].name, prefix)
    ELSE 0

\* z.read(name): ZipFile looks the member up by name in NameToInfo, which the
\* central-directory scan fills in stored order, a later entry replacing an
\* earlier one of the same name
ZipRead(entries, name) ==
    LET i == CHOOSE i \in 1..Len(entries) :
                /\ entries[i].name = name
                /\ \A j \in (i + 1)..Len(entries) : entries[j].name # name
    IN  entries[i].data

\* what one call did: the values it returned, the message it showed, and the
\* GET it issued (requested, url)
FetchReturn(a, requested, error, csv_data, csv_filename) ==
    [args |-> a, prefix |-> filename_prefix(a), requested |-> requested,
     url |-> IF requested THEN url(a) ELSE <<>>, message |-> error,
     csv_data |-> csv_data, csv_filename |-> csv_filename]

fetch_file_data(a, response) ==
    IF a.data_type # "L3" /\ ~AllPresent(a)
    THEN FetchReturn(a, FALSE, "missing_parameters", None, None)
    ELSE IF response.kind = "transport_error"
    THEN FetchReturn(a, TRUE, "error_fetching", None, None)
    ELSE IF response.status_code # HTTP_OK
    THEN FetchReturn(a, TRUE, "failed_status", None, None)
    ELSE IF response.content.fmt # "zip"
    THEN FetchReturn(a, TRUE, "error_fetching", None, None)
    ELSE LET i == FirstMatch(response.content.entries, filename_prefix(a))
         IN  IF i = 0
             THEN FetchReturn(a, TRUE, "no_matching_csv", None, None)
             ELSE LET name == response.content.entries[i].name
                  IN  FetchReturn(a, TRUE, "success",
                                  Bytes(ZipRead(response.content.entries, name)),
                                  Text(name))

----------------------------------------------------------------------------
(* The remote service *)

TransportError == [kind |-> "transport_error", status_code |-> 0, content |-> None]
Http(status_code, content) ==
    [kind |-> "http", status_code |-> status_code, content |-> content]
NonOkStatuses == {404}

Entry(name, data) == [name |-> name, data |-> data]
README == <<"readme", ".txt">>

\* the archive name the URL asks for: the URL between the base and ".zip"
UrlArchiveName(u) == SubSeq(u, 2, IndexOf(u, ".zip") - 1)

\* answers the service gives to the request of a in a session
SessionResponses(a) ==
    { TransportError,
      Http(HTTP_OK, Bytes(<<"not", "a", "zip">>)),
      Http(HTTP_OK, ZipBytes(<<Entry(README, <<"r">>),
                               Entry(filename_prefix(a) \o <<".csv">>, <<"x">>)>>)),
      Http(HTTP_OK, ZipBytes(<<Entry(filename_prefix(a) \o <<".csv">>, <<>>)>>)),
      Http(HTTP_OK, ZipBytes(<<Entry(UrlArchiveName(url(a)) \o <<".csv">>, <<"x">>)>>)),
      Http(HTTP_OK, ZipBytes(<<Entry(README, <<"r">>)>>)) }
    \cup { Http(s, Bytes(<<"html">>)) : s \in NonOkStatuses }

----------------------------------------------------------------------------
(* create_batch_zip *)

\* for filename, data in files_data: if data is not None: writestr(filename, data)
RECURSIVE WriteAll(_)
WriteAll(files_data) ==
    IF Len(files_data) = 0 THEN <<>>
    ELSE LET filename == Head(files_data)[1]
             data == Head(files_data)[2]
         IN  (IF ~data.none THEN <<Entry(filename.raw, data.raw)>> ELSE <<>>)
                 \o WriteAll(Tail(files_data))

create_batch_zip(files_data, batch_name) == ZipBytes(WriteAll(files_data))

----------------------------------------------------------------------------
(* State *)

VARIABLES
    data_type,          \* radio "Select level"
    download_type,      \* radio "Choose download type"
    download_ready,     \* st.session_state.download_ready
    download_data,      \* st.session_state.download_data
    download_filename,  \* st.session_state.download_filename
    pc,                 \* "idle", the handler that is running, or "done"
    run,                \* the inputs the running handler read from the form
    loop,               \* the loop variables of the running handler
    files_data,         \* local list of (csv_filename, csv_data)
    task_count,         \* local counter of the batch handlers
    progress,           \* last value given to progress_bar.progress, <<num, den>>
    status_text,        \* last text of status_placeholder
    last_fetch,         \* what the last call of fetch_file_data did
    response,           \* what the service answered to it
    attempts,           \* arguments of the calls of fetch_file_data of this run
    requests,           \* URLs of the GETs of this run
    returns,            \* (csv_data, csv_filename) each of them returned
    delivered,          \* what this run stored for download: none, bare, zip
    since_attempt,      \* seconds since the last call started
    last_gap,           \* <<seconds between the starts of the last two calls
                        \* of the run>>, <<>> before its second call
    work                \* calls of fetch_file_data so far, a run without one
                        \* counting as one

vars == <<data_type, download_type, download_ready, download_data,
          download_filename, pc, run, loop, files_data, task_count, progress,
          status_text, last_fetch, response, attempts, requests, returns,
          delivered, since_attempt, last_gap, work>>

session_state == <<download_ready, download_data, download_filename>>
radios == <<data_type, download_type>>

NoGap == <<>>
NoRun == [kind |-> "none"]
NoLoop == [done |-> TRUE]
NoFetch == [message |-> "none"]
NoResponse == [kind |-> "none"]
NoStatus == [text |-> "", n |-> 0]
Status(text, n) == [text |-> text, n |-> n]

Init ==
    /\ data_type = "L3"
    /\ download_type = "Single File"
    /\ download_ready = FALSE
    /\ download_data = None
    /\ download_filename = Text(<<>>)
    /\ pc = "idle"
    /\ run = NoRun
    /\ loop = NoLoop
    /\ files_data = <<>>
    /\ task_count = 0
    /\ progress = <<0, 1>>
    /\ status_text = NoStatus
    /\ last_fetch = NoFetch
    /\ response = NoResponse
    /\ attempts = <<>>
    /\ requests = <<>>
    /\ returns = <<>>
    /\ delivered = "none"
    /\ since_attempt = 0
    /\ last_gap = NoGap
    /\ work = 0

\* the script is not inside a button handler
AtRest == pc \in {"idle", "done"}

ClearRun ==
    /\ run' = NoRun
    /\ loop' = NoLoop
    /\ files_data' = <<>>
    /\ task_count' = 0
    /\ progress' = <<0, 1>>
    /\ status_text' = NoStatus
    /\ last_fetch' = NoFetch
    /\ response' = NoResponse
    /\ attempts' = <<>>
    /\ requests' = <<>>
    /\ returns' = <<>>
    /\ delivered' = "none"
    /\ since_attempt' = 0
    /\ last_gap' = NoGap

\* the user changes a radio; the script reruns and no button is pressed
SetMode ==
    /\ AtRest
    /\ \E dt \in LEVELS, dl \in DOWNLOAD_TYPES :
          /\ <<dt, dl>> # <<data_type, download_type>>
          /\ data_type' = dt
          /\ download_type' = dl
    /\ pc' = "idle"
    /\ ClearRun
    /\ UNCHANGED <<session_state, work>>

----------------------------------------------------------------------------
(* What the forms offer *)

Coords == MIN_COORD..(MIN_COORD + Span - 1)
Orbits == MIN_ORBIT..(MIN_ORBIT + Span - 1)
Bursts == MIN_BURST..(MIN_BURST + Span - 1)
\* "Min North" and "Min East" take the same numbers as "Max North" and
\* "Max East"; here they also reach Excess above them, so that a minimum can
\* be two or more above a maximum
MinCoords == MIN_COORD..(MIN_COORD + Span - 1 + Excess)
SwathChoices == {SWATHS[i] : i \in 1..NumChoices}
PolarizationChoices == {POLARIZATIONS[i] : i \in 1..NumChoices}

\* st.multiselect returns the picked options in the order they were picked
Picks(options) ==
    {<<>>} \cup {<<x>> : x \in options}
           \cup {p \in options \X options : p[1] # p[2]}

\* text typed into "Relative Orbit" / "Burst Cycle"
OrbitTexts == {<<>>, ZeroPad(MIN_ORBIT, ORBIT_WIDTH)}
BurstTexts == {<<>>, ZeroPad(MIN_BURST, BURST_WIDTH)}

\* disp_choice -> displacements
DisplacementsOf(disp_choice) ==
    IF disp_choice = "Both" THEN <<"E", "U">> ELSE <<disp_choice>>

Args(e, n, d, dt, year, id, relative_orbit, burst_cycle, swath, polarization) ==
    [e |-> e, n |-> n, d |-> d, data_type |-> dt, year |-> year, id |-> id,
     relative_orbit |-> relative_orbit, burst_cycle |-> burst_cycle,
     swath |-> swath, polarization |-> polarization]

\* fetch_file_data(e, n, d, "L3", year, id_value)
L3Args(e, n, d, year, id) == Args(e, n, d, "L3", year, id, <<>>, <<>>, <<>>, <<>>)
\* fetch_file_data(0, 0, "", data_type, year, id_value, orbit, burst, swath, pol)
L2Args(dt, year, id, relative_orbit, burst_cycle, swath, polarization) ==
    Args(0, 0, "", dt, year, id, relative_orbit, burst_cycle, <<swath>>,
         <<polarization>>)

\* the runs the model follows: any first run of up to MaxTasks tasks, and
\* every session within MaxSessionWork
MayStart(tasks) ==
    \/ work = 0 /\ tasks <= MaxTasks
    \/ work + (IF tasks = 0 THEN 1 ELSE tasks) <= MaxSessionWork

\* len(range(lo, hi + 1))
RangeLen(lo, hi) == IF hi >= lo THEN hi - lo + 1 ELSE 0

----------------------------------------------------------------------------
(* The body shared by the loops: fetch, keep the result, sleep *)

\* if csv_data and csv_filename: files_data.append((csv_filename, csv_data))
Keep(fd, r) ==
    IF Truthy(r.csv_data) /\ Truthy(r.csv_filename)
    THEN Append(fd, <<r.csv_filename, r.csv_data>>)
    ELSE fd

\* FetchStep with a failed fetch tried once more
FetchStepRetry(a, resp, secs) ==
    LET r == fetch_file_data(a, resp)
        again == r.csv_data.none
    IN  /\ last_fetch' = r
        /\ response' = IF r.requested THEN resp ELSE NoResponse
        /\ files_data' = Keep(files_data, r)
        /\ attempts' = IF again THEN attempts \o <<a, a>> ELSE Append(attempts, a)
        /\ requests' = IF ~r.requested THEN requests
                       ELSE IF again THEN requests \o <<r.url, r.url>>
                       ELSE Append(requests, r.url)
        /\ returns' = Append(returns, <<r.csv_data, r.csv_filename>>)
        /\ last_gap' = IF Len(attempts) = 0 THEN NoGap ELSE <<since_attempt>>
        /\ since_attempt' = (IF r.requested THEN secs ELSE 0) + SLEEP_SECS
        /\ work' = work + 1

\* one call of fetch_file_data and the sleep(1) after it
FetchStep(a, resp, secs) ==
    LET r == fetch_file_data(a, resp)
    IN  /\ last_fetch' = r
        /\ response' = IF r.requested THEN resp ELSE NoResponse
        /\ files_data' = Keep(files_data, r)
        /\ attempts' = Append(attempts, a)
        /\ requests' = IF r.requested THEN Append(requests, r.url) ELSE requests
        /\ returns' = Append(returns, <<r.csv_data, r.csv_filename>>)
        /\ last_gap' = IF Len(attempts) = 0 THEN NoGap ELSE <<since_attempt>>
        /\ since_attempt' = (IF r.requested THEN secs ELSE 0) + SLEEP_SECS
        /\ work' = work + 1

\* a handler starts: its locals are fresh
BeginRun(kind, r, first) ==
    /\ pc' = kind
    /\ run' = r
    /\ loop' = first
    /\ files_data' = <<>>
    /\ task_count' = 0
    /\ progress' = <<0, 1>>
    /\ status_text' = NoStatus
    /\ last_fetch' = NoFetch
    /\ response' = NoResponse
    /\ attempts' = <<>>
    /\ requests' = <<>>
    /\ returns' = <<>>
    /\ delivered' = "none"
    /\ since_attempt' = 0
    /\ last_gap' = NoGap
    /\ work' = work + (IF first.done THEN 1 ELSE 0)
    /\ UNCHANGED <<radios, session_state>>

----------------------------------------------------------------------------
(* Single File, L2A / L2B (lines 165-212) *)

L2Single ==
    /\ AtRest
    /\ download_type = "Single File"
    /\ data_type \in {"L2A", "L2B"}
    /\ MayStart(1)
    /\ \E relative_orbit \in OrbitTexts, burst_cycle \in BurstTexts,
          swath \in SwathChoices, polarization \in PolarizationChoices,
          secs \in 0..MaxFetchSecs :
          LET a == L2Args(data_type, DEFAULT_YEAR, DEFAULT_ID, relative_orbit,
                          burst_cycle, swath, polarization)
          IN  \E resp \in SessionResponses(a) :
                LET r == fetch_file_data(a, resp)
                    ok == Truthy(r.csv_data) /\ Truthy(r.csv_filename)
                IN  /\ run' = [kind |-> "l2_single", data_type |-> data_type]
                    /\ last_fetch' = r
                    /\ response' = IF r.requested THEN resp ELSE NoResponse
                    /\ attempts' = <<a>>
                    /\ requests' = IF r.requested THEN <<r.url>> ELSE <<>>
                    /\ returns' = <<<<r.csv_data, r.csv_filename>>>>
                    /\ since_attempt' = IF r.requested THEN secs ELSE 0
                    /\ download_data' = IF ok THEN r.csv_data ELSE download_data
                    /\ download_filename' =
                          IF ok THEN r.csv_filename ELSE download_filename
                    /\ download_ready' = IF ok THEN TRUE ELSE download_ready
                    /\ delivered' = IF ok THEN "bare" ELSE "none"
    /\ pc' = "done"
    /\ loop' = NoLoop
    /\ files_data' = <<>>
    /\ task_count' = 0
    /\ progress' = <<0, 1>>
    /\ status_text' = NoStatus
    /\ last_gap' = NoGap
    /\ work' = work + 1
    /\ UNCHANGED radios

----------------------------------------------------------------------------
(* Single File, L3 (lines 214-289) *)

\* for i, d in enumerate(displacements)
L3SingleStart ==
    /\ AtRest
    /\ download_type = "Single File"
    /\ data_type = "L3"
    /\ \E e_coord \in Coords, n_coord \in Coords, disp_choice \in {"E", "U", "Both"} :
          LET displacements == DisplacementsOf(disp_choice)
          IN  /\ MayStart(Len(displacements))
              /\ BeginRun("l3_single",
                          [kind |-> "l3_single", e_coord |-> e_coord,
                           n_coord |-> n_coord, displacements |-> displacements,
                           year |-> DEFAULT_YEAR, id_value |-> DEFAULT_ID],
                          [done |-> FALSE, i |-> 0])

L3SingleTask ==
    /\ pc = "l3_single"
    /\ loop.i < Len(run.displacements)
    /\ \E secs \in 0..MaxFetchSecs :
          LET d == run.displacements[loop.i + 1]
              a == L3Args(run.e_coord, run.n_coord, d, run.year, run.id_value)
          IN  \E resp \in SessionResponses(a) : FetchStep(a, resp, secs)
    /\ progress' = <<loop.i, Len(run.displacements)>>
    /\ status_text' = Status("fetching", loop.i)
    /\ loop' = [loop EXCEPT !.i = @ + 1]
    /\ UNCHANGED <<radios, session_state, pc, run, task_count, delivered>>

\* lines 262-278
L3SingleFinish ==
    /\ pc = "l3_single"
    /\ loop.i >= Len(run.displacements)
    /\ progress' = <<1, 1>>
    /\ IF Len(files_data) > 0
       THEN /\ IF Len(files_data) = 1
               THEN /\ download_data' = files_data[1][2]
                    /\ download_filename' = files_data[1][1]
                    /\ delivered' = "bare"
               ELSE LET zip_name ==
                          <<"EGMS", "_", "L3", "_", "E">> \o Str(run.e_coord)
                              \o <<"N">> \o Str(run.n_coord)
                              \o <<"_", run.year, "_", "batch", ".zip">>
                    IN  /\ download_data' = create_batch_zip(files_data, zip_name)
                        /\ download_filename' = Text(zip_name)
                        /\ delivered' = "zip"
            /\ download_ready' = TRUE
            /\ status_text' = Status("ready", 0)
       ELSE /\ status_text' = Status("preparing", 0)
            /\ delivered' = "none"
            /\ UNCHANGED session_state
    /\ pc' = "done"
    /\ loop' = [loop EXCEPT !.done = TRUE]
    /\ UNCHANGED <<radios, run, files_data, task_count, last_fetch, response,
                   attempts, requests, returns, since_attempt, last_gap, work>>

----------------------------------------------------------------------------
(* Batch Download, L3 (lines 293-378) *)

\* for e in range(min_e, max_e + 1): for n in range(min_n, max_n + 1):
\*     for d in displacements
GridFirst(r) ==
    IF r.min_e <= r.max_e /\ r.min_n <= r.max_n /\ Len(r.displacements) > 0
    THEN [done |-> FALSE, e |-> r.min_e, n |-> r.min_n, d |-> 1]
    ELSE [done |-> TRUE, e |-> r.min_e, n |-> r.min_n, d |-> 1]

\* GridNext with the two outer loops exchanged
GridNextNorthOuter(l, r) ==
    IF l.d < Len(r.displacements) THEN [l EXCEPT !.d = @ + 1]
    ELSE IF l.e < r.max_e THEN [l EXCEPT !.e = @ + 1, !.d = 1]
    ELSE IF l.n < r.max_n THEN [l EXCEPT !.n = @ + 1, !.e = r.min_e, !.d = 1]
    ELSE [l EXCEPT !.done = TRUE]

\* the loop variables of the next iteration
GridNext(l, r) ==
    IF l.d < Len(r.displacements) THEN [l EXCEPT !.d = @ + 1]
    ELSE IF l.n < r.max_n THEN [l EXCEPT !.n = @ + 1, !.d = 1]
    ELSE IF l.e < r.max_e THEN [l EXCEPT !.e = @ + 1, !.n = r.min_n, !.d = 1]
    ELSE [l EXCEPT !.done = TRUE]

L3BatchStart ==
    /\ AtRest
    /\ download_type = "Batch Download"
    /\ data_type = "L3"
    /\ \E min_n \in MinCoords, min_e \in MinCoords, max_n \in Coords,
          max_e \in Coords,
          disp_choice \in {"E", "U", "Both"} :
          LET displacements == DisplacementsOf(disp_choice)
              total_tiles == (max_e - min_e + 1) * (max_n - min_n + 1)
              total_files == IF disp_choice = "Both" THEN total_tiles * 2
                             ELSE total_tiles
              r == [kind |-> "l3_batch", min_e |-> min_e, max_e |-> max_e,
                    min_n |-> min_n, max_n |-> max_n,
                    displacements |-> displacements, year |-> DEFAULT_YEAR,
                    id_value |-> DEFAULT_ID, total_files |-> total_files,
                    total_tasks |-> (max_e - min_e + 1) * (max_n - min_n + 1)
                                        * Len(displacements)]
          IN  /\ MayStart(RangeLen(min_e, max_e) * RangeLen(min_n, max_n)
                              * Len(displacements))
              /\ BeginRun("l3_batch", r, GridFirst(r))

L3BatchTask ==
    /\ pc = "l3_batch"
    /\ ~loop.done
    /\ task_count' = task_count + 1
    /\ progress' = <<task_count', run.total_tasks>>
    /\ status_text' = Status("fetching", task_count')
    /\ \E secs \in 0..MaxFetchSecs :
          LET a == L3Args(loop.e, loop.n, run.displacements[loop.d], run.year,
                          run.id_value)
          IN  \E resp \in SessionResponses(a) : FetchStep(a, resp, secs)
    /\ loop' = GridNext(loop, run)
    /\ UNCHANGED <<radios, session_state, pc, run, delivered>>

\* lines 357-368 and 462-473: the end of both batch handlers
BatchFinish(zip_name) ==
    /\ progress' = <<1, 1>>
    /\ IF Len(files_data) > 0
       THEN /\ download_data' = create_batch_zip(files_data, zip_name)
            /\ download_filename' = Text(zip_name)
            /\ download_ready' = TRUE
            /\ delivered' = "zip"
            /\ status_text' = Status("ready", Len(files_data))
       ELSE /\ status_text' = Status("no_files", 0)
            /\ delivered' = "none"
            /\ UNCHANGED session_state
    /\ pc' = "done"
    /\ UNCHANGED <<radios, run, loop, files_data, task_count, last_fetch,
                   response, attempts, requests, returns, since_attempt,
                   last_gap, work>>

L3BatchFinish ==
    /\ pc = "l3_batch"
    /\ loop.done
    /\ BatchFinish(<<"EGMS", "_", "L3", "_", "E">> \o Str(run.min_e) \o <<"-">>
                       \o Str(run.max_e) \o <<"_", "N">> \o Str(run.min_n)
                       \o <<"-">> \o Str(run.max_n)
                       \o <<"_", run.year, "_", "batch", ".zip">>)

----------------------------------------------------------------------------
(* Batch Download, L2A / L2B (lines 380-483) *)

\* for rel_orbit in range(..): for burst_cycle in range(..):
\*     for swath in selected_swaths: for polarization in selected_polarizations
OrbitFirst(r) ==
    IF /\ r.min_relative_orbit <= r.max_relative_orbit
       /\ r.min_burst_cycle <= r.max_burst_cycle
       /\ Len(r.selected_swaths) > 0
       /\ Len(r.selected_polarizations) > 0
    THEN [done |-> FALSE, rel_orbit |-> r.min_relative_orbit,
          burst_cycle |-> r.min_burst_cycle, swath |-> 1, polarization |-> 1]
    ELSE [done |-> TRUE, rel_orbit |-> r.min_relative_orbit,
          burst_cycle |-> r.min_burst_cycle, swath |-> 1, polarization |-> 1]

\* OrbitNext without the loop over the burst cycles
OrbitNextOneBurst(l, r) ==
    IF l.polarization < Len(r.selected_polarizations)
    THEN [l EXCEPT !.polarization = @ + 1]
    ELSE IF l.swath < Len(r.selected_swaths)
    THEN [l EXCEPT !.swath = @ + 1, !.polarization = 1]
    ELSE IF l.rel_orbit < r.max_relative_orbit
    THEN [l EXCEPT !.rel_orbit = @ + 1, !.burst_cycle = r.min_burst_cycle,
                   !.swath = 1, !.polarization = 1]
    ELSE [l EXCEPT !.done = TRUE]

\* the loop variables of the next iteration
OrbitNext(l, r) ==
    IF l.polarization < Len(r.selected_polarizations)
    THEN [l EXCEPT !.polarization = @ + 1]
    ELSE IF l.swath < Len(r.selected_swaths)
    THEN [l EXCEPT !.swath = @ + 1, !.polarization = 1]
    ELSE IF l.burst_cycle < r.max_burst_cycle
    THEN [l EXCEPT !.burst_cycle = @ + 1, !.swath = 1, !.polarization = 1]
    ELSE IF l.rel_orbit < r.max_relative_orbit
    THEN [l EXCEPT !.rel_orbit = @ + 1, !.burst_cycle = r.min_burst_cycle,
                   !.swath = 1, !.polarization = 1]
    ELSE [l EXCEPT !.done = TRUE]

L2BatchStart ==
    /\ AtRest
    /\ download_type = "Batch Download"
    /\ data_type \in {"L2A", "L2B"}
    /\ \E min_relative_orbit \in Orbits, max_relative_orbit \in Orbits,
          min_burst_cycle \in Bursts, max_burst_cycle \in Bursts,
          selected_swaths \in Picks(SwathChoices),
          selected_polarizations \in Picks(PolarizationChoices) :
          LET orbit_count == max_relative_orbit - min_relative_orbit + 1
              burst_count == max_burst_cycle - min_burst_cycle + 1
              swath_count == Len(selected_swaths)
              pol_count == Len(selected_polarizations)
              r == [kind |-> "l2_batch", data_type |-> data_type,
                    min_relative_orbit |-> min_relative_orbit,
                    max_relative_orbit |-> max_relative_orbit,
                    min_burst_cycle |-> min_burst_cycle,
                    max_burst_cycle |-> max_burst_cycle,
                    selected_swaths |-> selected_swaths,
                    selected_polarizations |-> selected_polarizations,
                    year |-> DEFAULT_YEAR, id_value |-> DEFAULT_ID,
                    total_combinations |->
                        orbit_count * burst_count * swath_count * pol_count]
          IN  \* if not selected_swaths or not selected_polarizations: warning
              /\ Len(selected_swaths) > 0
              /\ Len(selected_polarizations) > 0
              /\ MayStart(RangeLen(min_relative_orbit, max_relative_orbit)
                              * RangeLen(min_burst_cycle, max_burst_cycle)
                              * swath_count * pol_count)
              /\ BeginRun("l2_batch", r, OrbitFirst(r))

L2BatchTask ==
    /\ pc = "l2_batch"
    /\ ~loop.done
    /\ task_count' = task_count + 1
    /\ progress' = <<task_count', run.total_combinations>>
    /\ status_text' = Status("fetching", task_count')
    /\ \E secs \in 0..MaxFetchSecs :
          LET rel_orbit_str == ZeroPad(loop.rel_orbit, ORBIT_WIDTH)
              burst_cycle_str == ZeroPad(loop.burst_cycle, BURST_WIDTH)
              a == L2Args(run.data_type, run.year, run.id_value, rel_orbit_str,
                          burst_cycle_str, run.selected_swaths[loop.swath],
                          run.selected_polarizations[loop.polarization])
          IN  \E resp \in SessionResponses(a) : FetchStep(a, resp, secs)
    /\ loop' = OrbitNext(loop, run)
    /\ UNCHANGED <<radios, session_state, pc, run, delivered>>

L2BatchFinish ==
    /\ pc = "l2_batch"
    /\ loop.done
    /\ BatchFinish(<<"EGMS", "_", run.data_type, "_", "batch", "_", run.year,
                     ".zip">>)

----------------------------------------------------------------------------
(* The page after the script has run *)

\* the branch of main() the radios select
Branch ==
    IF download_type = "Single File"
    THEN (IF data_type = "L3" THEN "l3_single" ELSE "l2_single")
    ELSE (IF data_type = "L3" THEN "l3_batch" ELSE "l2_batch")

\* lines 205, 281, 371, 476: whether st.download_button is reached
DownloadOffered ==
    /\ AtRest
    /\ download_ready
    /\ Truthy(download_data)
    /\ Branch \in {"l3_batch", "l2_batch"}
          => EndsWith(download_filename.raw, <<".zip">>)

\* the mime argument of the download button of the branch
DownloadMime ==
    IF Branch = "l2_single" THEN "text/csv"
    ELSE IF Branch = "l3_single"
    THEN (IF EndsWith(download_filename.raw, <<".zip">>) THEN "application/zip"
          ELSE "text/csv")
    ELSE "application/zip"

----------------------------------------------------------------------------
(* fetch_file_data as a function: one call on arbitrary arguments *)

\* arguments a caller can pass; <<>> stands for None and for ""
CallArgs ==
    {L3Args(e, n, d, DEFAULT_YEAR, DEFAULT_ID) :
        e \in Coords, n \in Coords, d \in {"E", "U"}}
    \cup
    {Args(0, 0, "", dt, DEFAULT_YEAR, DEFAULT_ID, o, b, s, p) :
        dt \in {"L2A", "L2B"}, o \in OrbitTexts, b \in BurstTexts,
        s \in {<<>>} \cup {<<x>> : x \in SwathChoices},
        p \in {<<>>} \cup {<<x>> : x \in PolarizationChoices}}

\* member names an archive can hold, seen from the request of a
MemberNames(a) ==
    { README,
      filename_prefix(a) \o <<".csv">>,
      filename_prefix(a) \o <<".txt">>,
      <<"data", "/">> \o filename_prefix(a) \o <<"_", "v2", ".csv">>,
      UrlArchiveName(url(a)) \o <<".csv">> }

Members(a) == {Entry(name, data) : name \in MemberNames(a), data \in {<<>>, <<"x">>}}

\* archives of up to n members, in stored order
RECURSIVE Archives(_, _)
Archives(a, n) ==
    IF n = 0 THEN {<<>>}
    ELSE LET shorter == Archives(a, n - 1)
         IN  shorter \cup {Append(z, m) : z \in shorter, m \in Members(a)}

CallResponses(a) ==
    {TransportError, Http(HTTP_OK, Bytes(<<"not", "a", "zip">>))}
    \cup {Http(s, Bytes(<<"html">>)) : s \in NonOkStatuses}
    \cup {Http(HTTP_OK, ZipBytes(z)) : z \in Archives(a, MaxEntries)}

FetchCall ==
    /\ pc = "idle"
    /\ work = 0
    /\ \E a \in CallArgs : \E resp \in CallResponses(a) : FetchStep(a, resp, 0)
    /\ pc' = "called"
    /\ UNCHANGED <<radios, session_state, run, loop, task_count, progress,
                   status_text, delivered>>

----------------------------------------------------------------------------
(* Specifications *)

\* an iteration of a running loop, or the code after it
RunStep ==
    \/ L3SingleTask
    \/ L3SingleFinish
    \/ L3BatchTask
    \/ L3BatchFinish
    \/ L2BatchTask
    \/ L2BatchFinish

Next ==
    \/ SetMode
    \/ L2Single
    \/ L3SingleStart
    \/ L3BatchStart
    \/ L2BatchStart
    \/ RunStep

Spec == Init /\ [][Next]_vars

\* one call of fetch_file_data from a fresh page
FetchSpec == Init /\ [][FetchCall]_vars

----------------------------------------------------------------------------
(* Claims *)

BatchKinds == {"l3_batch", "l2_batch"}

\* the addresses a batch run is asked for
Enumerated(r) ==
    IF r.kind = "l3_batch"
    THEN {L3Args(e, n, r.displacements[i], r.year, r.id_value) :
            e \in r.min_e..r.max_e, n \in r.min_n..r.max_n,
            i \in 1..Len(r.displacements)}
    ELSE {L2Args(r.data_type, r.year, r.id_value, ZeroPad(o, ORBIT_WIDTH),
                 ZeroPad(b, BURST_WIDTH), r.selected_swaths[i],
                 r.selected_polarizations[j]) :
            o \in r.min_relative_orbit..r.max_relative_orbit,
            b \in r.min_burst_cycle..r.max_burst_cycle,
            i \in 1..Len(r.selected_swaths),
            j \in 1..Len(r.selected_polarizations)}

Occurrences(seq, x) == Cardinality({i \in 1..Len(seq) : seq[i] = x})

\* the fetch returned a (data, filename) pair rather than (None, None)
Succeeded(ret) == ~ret[1].none
Successes == Cardinality({i \in 1..Len(returns) : Succeeded(returns[i])})

\* a step of a running batch fetches one more address or ends the run
BatchStepAdvances ==
    pc \in BatchKinds =>
        \/ pc' = "done" /\ attempts' = attempts
        \/ pc' = pc /\ Len(attempts') = Len(attempts) + 1

\* C1: a batch run always comes to its end, whatever each task's outcome:
\* while it runs a step is always possible, every step either fetches one
\* more address or ends the run, and the run ends only when each enumerated
\* address has been fetched exactly once (one call, one GET) and nothing else
\* has; no address is ever fetched a second time.
C1_EveryAddressFetchedOnce ==
    /\ [](run.kind \in BatchKinds =>
            /\ \A a \in Enumerated(run) :
                  /\ Occurrences(attempts, a) <= 1
                  /\ Occurrences(requests, url(a)) = Occurrences(attempts, a)
                  /\ pc = "done" => Occurrences(attempts, a) = 1
            /\ \A i \in 1..Len(attempts) : attempts[i] \in Enumerated(run)
            /\ Len(requests) = Len(attempts)
            /\ pc \in BatchKinds => ENABLED RunStep)
    /\ [][BatchStepAdvances]_vars

\* a batch of four tasks has ended although its first task failed and a
\* later one succeeded
C1_Witness ==
    /\ pc = "done"
    /\ run.kind \in BatchKinds
    /\ Len(attempts) = 4
    /\ ~Succeeded(returns[1])
    /\ last_fetch.message = "failed_status"
    /\ \E i \in 2..3 : Succeeded(returns[i])

\* what a run with its tasks' returns should have stored, in task order
ExpectedEntries ==
    LET ok == SelectSeq(returns, Succeeded)
    IN  [i \in 1..Len(ok) |-> Entry(ok[i][2].raw, ok[i][1].raw)]

\* every task of the run showed an error, or the run said that nothing could
\* be downloaded
ReportsFailure ==
    \/ status_text.text = "no_files"
    \/ /\ Len(attempts) > 0
       /\ last_fetch.message \notin {"success", "none"}

\* C2: a run that ends with no successful task reports failure and leaves no
\* download offered, whatever the session did before.
C2_FailedRunOffersNothing ==
    (pc = "done" /\ Successes = 0) => (ReportsFailure /\ ~DownloadOffered)

\* C3: the container a batch run with a success delivers holds one entry per
\* successful task, under that task's extracted filename, in task order, and
\* nothing for a failed task.
C3_ContainerHoldsEverySuccess ==
    (pc = "done" /\ run.kind \in BatchKinds /\ Successes >= 1) =>
        /\ delivered = "zip"
        /\ download_data.fmt = "zip"
        /\ Len(download_data.entries) = Successes
        /\ download_data.entries = ExpectedEntries

\* C4: a run with a success delivers the bare payload if and only if it is a
\* Single File run with exactly one success, and a zip container otherwise.
C4_BareOnlyForSingleSuccess ==
    (pc = "done" /\ Successes >= 1) =>
        IF run.kind \in {"l2_single", "l3_single"} /\ Successes = 1
        THEN delivered = "bare" /\ download_data.fmt = "raw"
        ELSE delivered = "zip" /\ download_data.fmt = "zip"

\* an orbit-mode call that lacks one of the four parameters
MissingAny(a) ==
    /\ a.data_type # "L3"
    /\ \/ Len(a.relative_orbit) = 0
       \/ Len(a.burst_cycle) = 0
       \/ Len(a.swath) = 0
       \/ Len(a.polarization) = 0

\* C5: an orbit-mode call that lacks relative orbit, burst cycle, swath or
\* polarization shows the missing-parameters error, issues no GET and adds
\* nothing to the result set.
C5_MissingParameterNoRequest ==
    (pc = "called" /\ MissingAny(last_fetch.args)) =>
        /\ last_fetch.message = "missing_parameters"
        /\ ~last_fetch.requested
        /\ requests = <<>>
        /\ response = NoResponse
        /\ last_fetch.csv_data.none /\ last_fetch.csv_filename.none
        /\ files_data = <<>>

\* the call lacked the swath alone
C5_Witness ==
    /\ pc = "called"
    /\ last_fetch.args.data_type = "L2B"
    /\ Len(last_fetch.args.swath) = 0
    /\ Len(last_fetch.args.relative_orbit) > 0
    /\ Len(last_fetch.args.burst_cycle) > 0
    /\ Len(last_fetch.args.polarization) > 0
    /\ last_fetch.message = "missing_parameters"

\* C6: the archive name an orbit-mode request asks for (the URL without base,
\* ".zip" and query) is the filename prefix the payload is matched against.
C6_PrefixMirrorsLocator ==
    (pc = "called" /\ last_fetch.args.data_type # "L3" /\ last_fetch.requested)
        => UrlArchiveName(last_fetch.url) = last_fetch.prefix

\* C7: from an archive that opens, the call returns the first stored entry
\* whose name ends with .csv and contains the prefix (its name and its bytes);
\* with no such entry it fails with no-matching-payload.
C7_FirstMatchingEntry ==
    (pc = "called" /\ response.kind = "http" /\ response.status_code = HTTP_OK
        /\ response.content.fmt = "zip") =>
        LET es == response.content.entries
            hits == {i \in 1..Len(es) :
                        /\ EndsWith(es[i].name, <<".csv">>)
                        /\ Contains(es[i].name, last_fetch.prefix)}
        IN  IF hits = {}
            THEN /\ last_fetch.message = "no_matching_csv"
                 /\ last_fetch.csv_data.none
            ELSE LET first == CHOOSE i \in hits : \A j \in hits : i <= j
                 IN  /\ last_fetch.message = "success"
                     /\ last_fetch.csv_filename = Text(es[first].name)
                     /\ last_fetch.csv_data = Bytes(es[first].data)

\* C8: two consecutive fetches of a run start at least the configured pacing
\* delay apart.
C8_PacingDelay == \A i \in 1..Len(last_gap) : last_gap[i] >= DELAY

\* grid batches go east, north, channel; orbit batches orbit, burst cycle,
\* swath, polarization: the k-th address of the nest, computed from k
EnumerationOrder(r) ==
    IF r.kind = "l3_batch"
    THEN LET N == RangeLen(r.min_n, r.max_n)
             D == Len(r.displacements)
         IN  [k \in 1..(RangeLen(r.min_e, r.max_e) * N * D) |->
                L3Args(r.min_e + ((k - 1) \div (N * D)),
                       r.min_n + (((k - 1) \div D) % N),
                       r.displacements[((k - 1) % D) + 1], r.year, r.id_value)]
    ELSE LET B == RangeLen(r.min_burst_cycle, r.max_burst_cycle)
             S == Len(r.selected_swaths)
             P == Len(r.selected_polarizations)
         IN  [k \in 1..(RangeLen(r.min_relative_orbit, r.max_relative_orbit)
                            * B * S * P) |->
                L2Args(r.data_type, r.year, r.id_value,
                       ZeroPad(r.min_relative_orbit + ((k - 1) \div (B * S * P)),
                               ORBIT_WIDTH),
                       ZeroPad(r.min_burst_cycle + (((k - 1) \div (S * P)) % B),
                               BURST_WIDTH),
                       r.selected_swaths[(((k - 1) \div P) % S) + 1],
                       r.selected_polarizations[((k - 1) % P) + 1])]

\* the payloads kept from the returns so far, in the order of their tasks
KeptInOrder ==
    LET kept == SelectSeq(returns, LAMBDA ret : Truthy(ret[1]) /\ Truthy(ret[2]))
    IN  [i \in 1..Len(kept) |-> <<kept[i][2], kept[i][1]>>]

\* C9: at every point of a batch run the fetches made so far are the first
\* addresses of the nested order (all of them once the run has ended), the
\* k-th return belongs to the k-th address, and the result set holds the kept
\* payloads in that same order; the result set is thus a function of the
\* batch and of the responses, the same for two runs that get the same ones.
C9_EnumerationOrder ==
    run.kind \in BatchKinds =>
        LET order == EnumerationOrder(run)
        IN  /\ Len(attempts) <= Len(order)
            /\ \A k \in 1..Len(attempts) : attempts[k] = order[k]
            /\ pc = "done" => Len(attempts) = Len(order)
            /\ Len(returns) = Len(attempts)
            /\ \A k \in 1..Len(returns) :
                  Succeeded(returns[k]) =>
                      Contains(returns[k][2].raw, filename_prefix(order[k]))
            /\ files_data = KeptInOrder

\* a 2 x 2 grid batch and an orbit batch over two swaths and two
\* polarizations have ended with at least two payloads kept
C9_Witness ==
    /\ pc = "done"
    /\ Len(attempts) = 4
    /\ Len(files_data) >= 2
    /\ \/ run.kind = "l3_batch" /\ run.min_e < run.max_e /\ run.min_n < run.max_n
       \/ /\ run.kind = "l2_batch"
          /\ Len(run.selected_swaths) = 2
          /\ Len(run.selected_polarizations) = 2

\* C10: an offered download has the MIME type application/zip if its filename
\* ends in .zip and text/csv otherwise.
C10_MimeFollowsExtension ==
    DownloadOffered =>
        DownloadMime = IF EndsWith(download_filename.raw, <<".zip">>)
                       THEN "application/zip" ELSE "text/csv"

\* the denominator of the progress of a batch run
Total(r) ==
    IF r.kind = "l3_batch" THEN r.total_tasks ELSE r.total_combinations

\* an iteration of a batch loop counts one more task and reports it
BatchTaskCounts ==
    (pc \in BatchKinds /\ pc' = pc) =>
        /\ task_count' = task_count + 1
        /\ progress' = <<task_count', Total(run)>>
        /\ status_text' = Status("fetching", task_count')

\* C11: the progress a batch run reports for its tasks carries a completed
\* count that is 1 at the first task, grows by exactly 1 with each task (it
\* is the number of fetches made), never exceeds the total and equals the
\* total when the loop has ended; the fraction completed / total reported for
\* a task is greater than 0 and at most 1.
C11_ProgressCounts ==
    /\ []((run.kind \in BatchKinds /\ task_count >= 1) =>
            /\ task_count = Len(attempts)
            /\ task_count <= Total(run)
            /\ (pc \in BatchKinds =>
                    /\ progress = <<task_count, Total(run)>>
                    /\ 0 < progress[1]
                    /\ progress[1] <= progress[2])
            /\ (loop.done => task_count = Total(run)))
    /\ []((pc \in BatchKinds /\ task_count = 0) => Len(attempts) = 0)
    /\ [][BatchTaskCounts]_vars

\* the third of four tasks of a batch has been reported
C11_Witness ==
    /\ pc \in BatchKinds
    /\ task_count = 3
    /\ progress = <<3, 4>>
    /\ status_text = Status("fetching", 3)

\* the answer has status 200, its body opens as an archive, and the archive
\* holds an entry whose name ends with .csv and contains the prefix
AnswerHasMatch(resp, prefix) ==
    /\ resp.kind = "http"
    /\ resp.status_code = HTTP_OK
    /\ resp.content.fmt = "zip"
    /\ \E i \in 1..Len(resp.content.entries) :
          /\ EndsWith(resp.content.entries[i].name, <<".csv">>)
          /\ Contains(resp.content.entries[i].name, prefix)

\* the runs that collect their tasks' results in files_data
LoopKinds == {"l3_single", "l3_batch", "l2_batch"}

\* C12: the task a run has just done added a (filename, bytes) pair to the
\* result set if and only if its answer had status 200, opened as an archive
\* and held a matching entry, whatever bytes that entry holds; after any
\* other answer the result set is what it was, and over the whole run it
\* holds one pair per such task.
C12_ContributesIffMatched ==
    (run.kind \in LoopKinds /\ Len(attempts) >= 1) =>
        LET matched == AnswerHasMatch(response, last_fetch.prefix)
        IN  /\ matched <=> Succeeded(returns[Len(returns)])
            /\ Len(files_data) = Successes
            /\ matched =>
                  /\ Len(files_data) >= 1
                  /\ files_data[Len(files_data)][1] = last_fetch.csv_filename
                  /\ files_data[Len(files_data)][2] = last_fetch.csv_data

\* the number of files the page announces above the button of a batch form
Announced(r) ==
    IF r.kind = "l3_batch" THEN r.total_files ELSE r.total_combinations

\* C13: whatever bounds and selections a batch run was started with, a
\* minimum above its maximum included, the number of files announced before
\* the run, which is also the denominator of its progress, is the number of
\* tasks the run attempted.
C13_AnnouncedEqualsAttempted ==
    (pc = "done" /\ run.kind \in BatchKinds) =>
        /\ Announced(run) = Len(attempts)
        /\ Total(run) = Announced(run)

====
